---- MODULE Spec2Model ----
(***************************************************************************)
(* Model of src/main.py: the interactive assistant that validates a Git    *)
(* URL, probes and clones the repository, detects dependency manifests,    *)
(* offers installations, prepares a virtual environment and runs the       *)
(* targeted installers.                                                    *)
(*                                                                         *)
(* Strings typed by the user are sequences of one-character strings, so    *)
(* that str.strip() and str.lower() are computed and not assumed.          *)
(* Subprocess exit statuses, shutil.which() results and the contents of    *)
(* the cloned repository are choices of the environment.                   *)
(***************************************************************************)
EXTENDS Integers, Sequences, FiniteSets, TLC

VARIABLES
    pc,                 \* position in main(), or in a harness
    typed,              \* selector harness: the raw lines the selector read
    scratch,            \* the probe's tempfile.TemporaryDirectory
    dirs,               \* directories that exist
    files,              \* directory -> names present in its root
    carpeta_clonacion,  \* main's local: the destination, or None
    archivos,           \* main's local: the probe's file inventory
    dependencies,       \* main's local: the dependency map
    os_name,            \* os.name of the host
    runs,               \* completed calls of setup_python_virtualenv
    trace               \* what the run did, in order

vars == <<pc, typed, scratch, dirs, files, carpeta_clonacion, archivos,
          dependencies, os_name, runs, trace>>

(***************************************************************************)
(* Bounds.                                                                 *)
(***************************************************************************)
MaxRuns == 2

(***************************************************************************)
(* Strings.                                                                *)
(***************************************************************************)
Whitespace == {" ", "\t"}

LowerChar(c) ==
    CASE c = "S" -> "s"
      [] c = "N" -> "n"
      [] c = "Y" -> "y"
      [] c = "E" -> "e"
      [] OTHER -> c

\* str.lower()
Lower(s) == [i \in 1..Len(s) |-> LowerChar(s[i])]

RECURSIVE LStrip(_)
LStrip(s) ==
    IF s # << >> /\ Head(s) \in Whitespace THEN LStrip(Tail(s)) ELSE s

RECURSIVE RStrip(_)
RStrip(s) ==
    IF s # << >> /\ s[Len(s)] \in Whitespace
    THEN RStrip(SubSeq(s, 1, Len(s) - 1))
    ELSE s

\* str.strip()
Strip(s) == RStrip(LStrip(s))

(***************************************************************************)
(* The trace: prompts read, messages printed, subprocesses run, stages     *)
(* entered and exceptions that left main() uncaught.                       *)
(***************************************************************************)
Out(m)      == [k |-> "out",   v |-> m, r |-> ""]
In(p, yes)  == [k |-> "in",    v |-> p, r |-> IF yes THEN "s" ELSE "n"]
Read(p)     == [k |-> "in",    v |-> p, r |-> ""]   \* a free-text line
Run(c, e)   == [k |-> "run",   v |-> c, r |-> e]
Stage(s)    == [k |-> "stage", v |-> s, r |-> ""]
Raise(x)    == [k |-> "raise", v |-> x, r |-> ""]

\* How a subprocess ends: exit status zero, exit status non-zero.
ExitCodes == {"ok", "fail"}

None == <<"<None>">>       \* Python's None, where a path is expected
CwdDir == <<"c">>          \* os.getcwd()
NoDeps == [e \in {} |-> ""] \* the empty dict

\* Python truthiness of a str-or-None and of a list
Truthy(x) == x # None /\ x # << >>

CwdMarkers  == {"venv", "requirements.txt", "package.json", ".env"}
RepoMarkers == {"package.json", "requirements.txt", "Pipfile", "venv"}

\* Paths the user may type at the custom-directory prompt: a creatable path
\* (also with blanks around it), a path where creation is denied, and the
\* empty path, for which os.makedirs raises FileNotFoundError (an OSError).
UserPaths == {<<"d">>, <<" ", "d", " ">>, <<"x">>, << >>}
Denied == {<<"x">>}

\* Answers typed at the change-directory prompt.
Answers == {<<"s">>, <<"S">>, <<" ", "s", " ">>, <<"n">>,
            <<"y", "e", "s">>, << >>}
\* Answers typed at the installation prompts.
InstallAnswers == {<<"s">>, <<"S">>, <<" ", "s">>, <<"n">>}

\* The working directories main is started in: empty, holding every
\* marker, holding the two manifests only, holding venv and .env only.
StartDirs ==
    {{}, CwdMarkers, {"requirements.txt", "package.json"}, {"venv", ".env"}}

InitAt(start, cwds) ==
    /\ pc = start
    /\ typed = << >>
    /\ scratch = "none"
    /\ dirs = {CwdDir}
    /\ \E present \in cwds :
         files = [p \in {CwdDir, <<"d">>} |-> IF p = CwdDir THEN present ELSE {}]
    /\ carpeta_clonacion = None
    /\ archivos = << >>
    /\ dependencies = NoDeps
    /\ os_name \in {"posix", "nt"}
    /\ runs = 0
    /\ trace = << >>

Init == InitAt("paso1", StartDirs)

(***************************************************************************)
(* main, Paso 1: read the URL.                                             *)
(***************************************************************************)
Paso1 ==
    /\ pc = "paso1"
    /\ trace' = trace \o <<Out("Bienvenido"), Read("url")>>
    /\ pc' = "paso2"
    /\ UNCHANGED <<typed, scratch, dirs, files, carpeta_clonacion, archivos,
                   dependencies, os_name, runs>>

(***************************************************************************)
(* verificar_url_repositorio: events of the call and its return value.     *)
(***************************************************************************)
\* as it would be without check=True: the exit status is not looked at
verificar_url_repositorio_unchecked(exit) ==
    [ret |-> TRUE, ev |-> <<Run("git ls-remote", exit)>>]

verificar_url_repositorio(exit) ==
    IF exit = "ok"
    THEN [ret |-> TRUE,  ev |-> <<Run("git ls-remote", exit)>>]
    ELSE [ret |-> FALSE, ev |-> <<Run("git ls-remote", exit),
                                  Out("URL no valido")>>]

\* main, Paso 2 and the final else branch.
Paso2 ==
    /\ pc = "paso2"
    /\ \E exit \in ExitCodes :
         LET v == verificar_url_repositorio(exit) IN
         IF v.ret
         THEN /\ trace' = trace \o <<Stage("verificar")>> \o v.ev
                            \o <<Out("URL verificado")>>
              /\ pc' = "paso3"
         ELSE /\ trace' = trace \o <<Stage("verificar")>> \o v.ev
                            \o <<Out("Proceso terminado. Verifique el URL")>>
              /\ pc' = "fin"
    /\ UNCHANGED <<typed, scratch, dirs, files, carpeta_clonacion, archivos,
                   dependencies, os_name, runs>>

(***************************************************************************)
(* obtener_nombre_y_archivos_repositorio.  The with-block is entered       *)
(* (Paso3Enter) and then left (Paso3Body) by return or by an exception.    *)
(***************************************************************************)
\* TemporaryDirectory.__exit__: the directory is removed however the block
\* is left.
\* as it would be with mkdtemp() and an rmtree() at the end of the body
TemporaryDirectory_exit_leaky(raised) == IF raised THEN "live" ELSE "removed"

TemporaryDirectory_exit(raised) == "removed"

\* What the file enumeration (rglob) can yield: nothing, some files, or an
\* OSError partway.
Enumerations == {"none", "some", "oserror"}

Paso3Enter ==
    /\ pc = "paso3"
    /\ scratch' = "live"
    /\ trace' = Append(trace, Stage("obtener"))
    /\ pc' = "paso3_with"
    /\ UNCHANGED <<typed, dirs, files, carpeta_clonacion, archivos,
                   dependencies, os_name, runs>>

\* The body of the with-block and main's lines 259-267.
Paso3Body ==
    /\ pc = "paso3_with"
    /\ \E exit \in ExitCodes, enum \in Enumerations :
         LET ran == Run("git clone --depth 1", exit) IN
         IF exit # "ok"
         THEN \* check=True: CalledProcessError leaves main uncaught
              /\ scratch' = TemporaryDirectory_exit(TRUE)
              /\ trace' = trace \o <<ran, Raise("CalledProcessError")>>
              /\ pc' = "error"
              /\ UNCHANGED archivos
         ELSE IF enum = "oserror"
         THEN /\ scratch' = TemporaryDirectory_exit(TRUE)
              /\ trace' = trace \o <<ran, Raise("OSError")>>
              /\ pc' = "error"
              /\ UNCHANGED archivos
         ELSE /\ scratch' = TemporaryDirectory_exit(FALSE)
              /\ archivos' = IF enum = "some" THEN <<"f">> ELSE << >>
              \* nombre is the scratch directory's last segment: never empty
              /\ IF Truthy(<<"tmp">>) /\ Truthy(archivos')
                 THEN /\ trace' = trace \o <<ran, Out("Nombre del repositorio")>>
                      /\ pc' = "paso4"
                 ELSE /\ trace' = trace \o
                            <<ran, Out("No se pudieron obtener los detalles")>>
                      /\ pc' = "fin"
    /\ UNCHANGED <<typed, dirs, files, carpeta_clonacion,
                   dependencies, os_name, runs>>

(***************************************************************************)
(* seleccionar_carpeta_clonacion(default_dir), given the two lines the     *)
(* user would type.  Returns the value, the directories afterwards and     *)
(* the events.                                                             *)
(***************************************************************************)
\* os.makedirs(path, exist_ok=True)
Makedirs(path) ==
    IF path \in Denied THEN "PermissionError"
    ELSE IF path = << >> THEN "OSError"
    ELSE "ok"

\* as it would be if everything but "n" were taken as yes
EsSi_todo_menos_n(custom_dir) == custom_dir # <<"n">>

\* line 38: the test on the normalised answer
EsSi(custom_dir) == custom_dir = <<"s">>

seleccionar_carpeta_clonacion(default_dir, answer, path, ds) ==
    LET custom_dir == Lower(Strip(answer)) IN
    IF EsSi(custom_dir)
    THEN LET user_dir == Strip(path)
             made == Makedirs(user_dir) IN
         IF made = "ok"
         THEN [ret |-> user_dir, dirs |-> ds \cup {user_dir},
               ev |-> <<Out("Carpeta predeterminada"), In("cambiar", TRUE),
                        Read("ruta"), Out("Carpeta configurada")>>]
         ELSE IF made = "PermissionError"
         THEN [ret |-> None, dirs |-> ds,
               ev |-> <<Out("Carpeta predeterminada"), In("cambiar", TRUE),
                        Read("ruta"), Out("Error: No tienes permisos")>>]
         ELSE [ret |-> None, dirs |-> ds,
               ev |-> <<Out("Carpeta predeterminada"), In("cambiar", TRUE),
                        Read("ruta"),
                        Out("Error: No se pudo crear la carpeta")>>]
    ELSE [ret |-> default_dir, dirs |-> ds,
          ev |-> <<Out("Carpeta predeterminada"), In("cambiar", FALSE)>>]

\* main, Paso 4
Paso4 ==
    /\ pc = "paso4"
    /\ \E answer \in Answers, path \in UserPaths :
         LET sel == seleccionar_carpeta_clonacion(CwdDir, answer, path, dirs) IN
         /\ carpeta_clonacion' = sel.ret
         /\ dirs' = sel.dirs
         /\ IF Truthy(sel.ret)
            THEN /\ trace' = trace \o <<Stage("seleccionar")>> \o sel.ev
                               \o <<Out("El repositorio se clonara en")>>
                 /\ pc' = "paso5"
            ELSE /\ trace' = trace \o <<Stage("seleccionar")>> \o sel.ev
                               \o <<Out("Error al seleccionar la carpeta")>>
                 /\ pc' = "fin"
    /\ UNCHANGED <<typed, scratch, files, archivos, dependencies, os_name, runs>>

\* main, Paso 5: the confirmation prompt; whatever is typed is discarded
Paso5 ==
    /\ pc = "paso5"
    /\ trace' = Append(trace, Read("continuar"))
    /\ pc' = "paso6"
    /\ UNCHANGED <<typed, scratch, dirs, files, carpeta_clonacion, archivos,
                   dependencies, os_name, runs>>

(***************************************************************************)
(* clone_repository.  git clones only into an empty directory; on success  *)
(* the destination holds the repository's files.                           *)
(***************************************************************************)
CloneExits(dest) == IF files[dest] = {} THEN ExitCodes ELSE ExitCodes \ {"ok"}

\* as it would be without the return False of line 72
clone_repository_no_return(exit) ==
    IF exit = "ok"
    THEN [ret |-> TRUE,
          ev |-> <<Run("git clone", exit), Out("Repositorio clonado con exito"),
                   Out("Vista previa de archivos")>>]
    ELSE [ret |-> TRUE,
          ev |-> <<Run("git clone", exit), Out("Error al clonar el repositorio"),
                   Out("Vista previa de archivos")>>]

clone_repository(exit) ==
    IF exit = "ok"
    THEN [ret |-> TRUE,
          ev |-> <<Run("git clone", exit), Out("Repositorio clonado con exito"),
                   Out("Vista previa de archivos")>>]
    ELSE [ret |-> FALSE,
          ev |-> <<Run("git clone", exit), Out("Error al clonar el repositorio")>>]

\* main, Paso 6
Paso6 ==
    /\ pc = "paso6"
    /\ \E exit \in CloneExits(carpeta_clonacion), repo \in SUBSET RepoMarkers :
         LET c == clone_repository(exit) IN
         /\ dirs' = dirs \cup {carpeta_clonacion}
         /\ IF c.ret
            THEN /\ files' = [files EXCEPT ![carpeta_clonacion] = repo]
                 /\ trace' = trace \o <<Stage("clonar")>> \o c.ev
                               \o <<Out("Repositorio clonado exitosamente")>>
                 /\ pc' = "paso7"
            ELSE /\ files' = files
                 /\ trace' = trace \o <<Stage("clonar")>> \o c.ev
                 /\ pc' = "fin"
    /\ UNCHANGED <<typed, scratch, carpeta_clonacion, archivos,
                   dependencies, os_name, runs>>

(***************************************************************************)
(* detect_dependencies(project_folder), given the names in the folder.     *)
(***************************************************************************)
\* as it would be with the two Python checks in the other order
PythonManifest_pipfile_first(present) ==
    IF "Pipfile" \in present THEN "Pipfile"
    ELSE IF "requirements.txt" \in present THEN "requirements.txt"
    ELSE ""

\* lines 102-107: the manifest that stands for Python, "" if none
PythonManifest(present) ==
    IF "requirements.txt" \in present THEN "requirements.txt"
    ELSE IF "Pipfile" \in present THEN "Pipfile"
    ELSE ""

detect_dependencies(present) ==
    LET keys == (IF "package.json" \in present THEN {"Node.js"} ELSE {})
                \cup (IF PythonManifest(present) # "" THEN {"Python"} ELSE {})
                \cup (IF "venv" \in present
                      THEN {"Python virtual environment"} ELSE {})
    IN [e \in keys |->
          CASE e = "Node.js" -> "package.json"
            [] e = "Python" -> PythonManifest(present)
            [] OTHER -> "venv"]

\* the summary detect_dependencies prints (lines 116-121)
detect_summary(deps) ==
    IF DOMAIN deps # {}
    THEN <<Out("Resumen de dependencias detectadas")>>
    ELSE <<Out("No se detectaron dependencias")>>

\* main, Paso 7
Paso7 ==
    /\ pc = "paso7"
    /\ dependencies' = detect_dependencies(files[carpeta_clonacion])
    /\ trace' = trace \o <<Stage("detectar")>> \o detect_summary(dependencies')
    /\ pc' = "paso8"
    /\ UNCHANGED <<typed, scratch, dirs, files, carpeta_clonacion, archivos,
                   os_name, runs>>

(***************************************************************************)
(* install_dependency(dependency_name, install_command, ...), given the    *)
(* line typed, whether the command's executable can be started and the     *)
(* exit status it would end with.  subprocess.run raises FileNotFoundError *)
(* when the executable is missing; only CalledProcessError is caught.      *)
(***************************************************************************)
install_dependency(dependency_name, install_command, answer, startable, exit) ==
    LET choice == Lower(answer) IN
    IF choice = <<"s">>
    THEN IF ~startable
         THEN [raised |-> TRUE, ok |-> FALSE,
               ev |-> <<In(dependency_name, TRUE), Out("Instalando"),
                        Raise("FileNotFoundError")>>]
         ELSE IF exit = "ok"
         THEN [raised |-> FALSE, ok |-> TRUE,
               ev |-> <<In(dependency_name, TRUE), Out("Instalando"),
                        Run(install_command, exit),
                        Out("se instalo correctamente")>>]
         ELSE [raised |-> FALSE, ok |-> FALSE,
               ev |-> <<In(dependency_name, TRUE), Out("Instalando"),
                        Run(install_command, exit),
                        Out("Error: No se pudo instalar")>>]
    ELSE [raised |-> FALSE, ok |-> FALSE,
          ev |-> <<In(dependency_name, FALSE),
                   Out("Instrucciones para instalar manualmente")>>]

NoCall == [raised |-> FALSE, ok |-> FALSE, ev |-> << >>]

(***************************************************************************)
(* install_required_dependencies, Phase A.                                 *)
(***************************************************************************)
\* shutil.which("git"): git has just been run three times from the same
\* search path, so the lookup finds it.
WhichGit == {TRUE}

\* lines 148-151: git is looked up on the search path
Paso8Git ==
    /\ pc = "paso8"
    /\ \E git \in WhichGit :
         IF ~git
         THEN /\ trace' = trace \o <<Stage("instalar"),
                                     Out("Error: Git no esta instalado")>>
              /\ pc' = "paso9"
         ELSE /\ trace' = trace \o <<Stage("instalar")>>
              /\ pc' = "paso8_node"
    /\ UNCHANGED <<typed, scratch, dirs, files, carpeta_clonacion, archivos,
                   dependencies, os_name, runs>>

\* lines 153-162
Paso8Node ==
    /\ pc = "paso8_node"
    /\ \E node \in BOOLEAN, npm \in BOOLEAN,
          answer \in InstallAnswers, exit \in ExitCodes :
         LET due  == "Node.js" \in DOMAIN dependencies
             call == IF due /\ (~node \/ ~npm)
                     THEN install_dependency("Node.js y npm",
                              "npm install -g node", answer, npm, exit)
                     ELSE NoCall
             ev   == IF due /\ node /\ npm
                     THEN <<Out("Node.js y npm ya estan instalados")>>
                     ELSE call.ev
         IN /\ trace' = trace \o ev
            /\ pc' = IF call.raised THEN "error" ELSE "paso8_python"
    /\ UNCHANGED <<typed, scratch, dirs, files, carpeta_clonacion, archivos,
                   dependencies, os_name, runs>>

\* lines 164-177
Paso8Python ==
    /\ pc = "paso8_python"
    /\ \E python3 \in BOOLEAN, pip \in BOOLEAN,
          answer1 \in InstallAnswers, exit1 \in ExitCodes,
          answer2 \in InstallAnswers, exit2 \in ExitCodes :
         LET due   == "Python" \in DOMAIN dependencies
             call1 == IF due /\ ~python3
                      THEN install_dependency("Python",
                               "apt-get install python3", answer1, TRUE, exit1)
                      ELSE NoCall
             \* python3 can be started if it was found or has just been installed
             py    == python3 \/ call1.ok
             call2 == IF due /\ ~call1.raised /\ ~pip
                      THEN install_dependency("pip",
                               "python3 -m ensurepip --upgrade", answer2, py, exit2)
                      ELSE NoCall
         IN /\ trace' = trace \o call1.ev \o call2.ev
            /\ pc' = IF call1.raised \/ call2.raised THEN "error"
                     ELSE "paso8_b_node"
    /\ UNCHANGED <<typed, scratch, dirs, files, carpeta_clonacion, archivos,
                   dependencies, os_name, runs>>

(***************************************************************************)
(* install_required_dependencies, Phase B: one iteration of the loop over  *)
(* project_requirements (lines 185-194).  shell=True, check=False: the     *)
(* exit status is not looked at.                                           *)
(***************************************************************************)
\* as it would be with check=True
project_install_checked(dep, command, answer, exit) ==
    LET choice == Lower(answer) IN
    IF choice = <<"s">>
    THEN IF exit = "ok"
         THEN [raised |-> FALSE,
               ev |-> <<In(command, TRUE), Run(command, exit),
                        Out("se configuro correctamente")>>]
         ELSE [raised |-> TRUE,
               ev |-> <<In(command, TRUE), Run(command, exit),
                        Raise("CalledProcessError")>>]
    ELSE [raised |-> FALSE, ev |-> <<In(command, FALSE), Out("Instruccion")>>]

project_install(dep, command, answer, exit) ==
    LET choice == Lower(answer) IN
    IF choice = <<"s">>
    THEN [raised |-> FALSE,
          ev |-> <<In(command, TRUE), Run(command, exit),
                   Out("se configuro correctamente")>>]
    ELSE [raised |-> FALSE, ev |-> <<In(command, FALSE), Out("Instruccion")>>]

PhaseB(at, dep, command, then) ==
    /\ pc = at
    /\ \E answer \in InstallAnswers, exit \in ExitCodes :
         IF dep \in DOMAIN dependencies
         THEN LET i == project_install(dep, command, answer, exit) IN
              /\ trace' = trace \o i.ev
              /\ pc' = IF i.raised THEN "error" ELSE then
         ELSE /\ UNCHANGED trace
              /\ pc' = then
    /\ UNCHANGED <<typed, scratch, dirs, files, carpeta_clonacion, archivos,
                   dependencies, os_name, runs>>

Paso8BNode == PhaseB("paso8_b_node", "Node.js", "sh -c npm install", "paso8_b_python")

Paso8BPython ==
    PhaseB("paso8_b_python", "Python", "sh -c pip install -r requirements.txt",
           "paso9")

(***************************************************************************)
(* setup_python_virtualenv, run in the current working directory, given    *)
(* the names present there and the exit status the venv creation would     *)
(* end with.  check=True: a non-zero exit raises CalledProcessError.       *)
(***************************************************************************)
ActivateScript(name) ==
    IF name = "nt" THEN "venv\\Scripts\\activate.bat"
    ELSE "source venv/bin/activate"

\* as it would be without the existence check
VenvMissing_always(present) == TRUE

\* line 199
VenvMissing(present) == "venv" \notin present

setup_python_virtualenv(present, name, exit) ==
    IF VenvMissing(present)
    THEN IF exit = "ok"
         THEN [raised |-> FALSE, present |-> present \cup {"venv"},
               ev |-> <<Out("Creando entorno virtual"),
                        Run("python -m venv venv", exit),
                        Out("Entorno virtual creado"),
                        Out(ActivateScript(name))>>]
         ELSE [raised |-> TRUE, present |-> present,
               ev |-> <<Out("Creando entorno virtual"),
                        Run("python -m venv venv", exit),
                        Raise("CalledProcessError")>>]
    ELSE [raised |-> FALSE, present |-> present,
          ev |-> <<Out("El entorno virtual ya existe"),
                   Out(ActivateScript(name))>>]

Preparar(at, then) ==
    /\ pc = at
    /\ \E exit \in ExitCodes :
         LET p == setup_python_virtualenv(files[CwdDir], os_name, exit) IN
         /\ files' = [files EXCEPT ![CwdDir] = p.present]
         /\ trace' = trace \o <<Stage("venv")>> \o p.ev
         /\ runs' = IF p.raised THEN runs ELSE runs + 1
         /\ pc' = IF p.raised THEN "error" ELSE then
    /\ UNCHANGED <<typed, scratch, dirs, carpeta_clonacion, archivos,
                   dependencies, os_name>>

\* main, Paso 9
Paso9 == Preparar("paso9", "paso10")

(***************************************************************************)
(* setup_environment_variables                                             *)
(***************************************************************************)
setup_environment_variables(present) ==
    IF ".env" \in present
    THEN <<Out("Cargando variables de entorno"),
           Out("Variables de entorno configuradas")>>
    ELSE <<Out("No se encontro un archivo .env")>>

\* main, Paso 10
Paso10 ==
    /\ pc = "paso10"
    /\ trace' = trace \o <<Stage("env")>>
                      \o setup_environment_variables(files[CwdDir])
    /\ pc' = "paso11"
    /\ UNCHANGED <<typed, scratch, dirs, files, carpeta_clonacion, archivos,
                   dependencies, os_name, runs>>

(***************************************************************************)
(* The targeted installers, run in the current working directory.  Both    *)
(* use check=True and catch nothing.  venv/bin/pip is a relative path      *)
(* that need not exist: subprocess.run then raises FileNotFoundError.      *)
(***************************************************************************)
PipOutcomes == ExitCodes \cup {"notfound"}

install_python_dependencies(present, outcome) ==
    IF "requirements.txt" \in present
    THEN IF outcome = "ok"
         THEN [raised |-> FALSE,
               ev |-> <<Out("Se detecto requirements.txt"),
                        Run("venv/bin/pip install -r requirements.txt", outcome),
                        Out("Dependencias de Python instaladas")>>]
         ELSE IF outcome = "notfound"
         THEN [raised |-> TRUE,
               ev |-> <<Out("Se detecto requirements.txt"),
                        Raise("FileNotFoundError")>>]
         ELSE [raised |-> TRUE,
               ev |-> <<Out("Se detecto requirements.txt"),
                        Run("venv/bin/pip install -r requirements.txt", outcome),
                        Raise("CalledProcessError")>>]
    ELSE [raised |-> FALSE, ev |-> <<Out("No se detecto requirements.txt")>>]

install_node_dependencies(present, exit) ==
    IF "package.json" \in present
    THEN IF exit = "ok"
         THEN [raised |-> FALSE,
               ev |-> <<Out("Se detecto package.json"),
                        Run("npm install", exit),
                        Out("Dependencias de Node.js instaladas")>>]
         ELSE [raised |-> TRUE,
               ev |-> <<Out("Se detecto package.json"),
                        Run("npm install", exit),
                        Raise("CalledProcessError")>>]
    ELSE [raised |-> FALSE, ev |-> <<Out("No se detecto package.json")>>]

\* main, Paso 11
Paso11 ==
    /\ pc = "paso11"
    /\ \E outcome \in PipOutcomes :
         LET i == install_python_dependencies(files[CwdDir], outcome) IN
         /\ trace' = trace \o <<Stage("pip")>> \o i.ev
         /\ pc' = IF i.raised THEN "error" ELSE "paso12"
    /\ UNCHANGED <<typed, scratch, dirs, files, carpeta_clonacion, archivos,
                   dependencies, os_name, runs>>

\* main, Paso 12
Paso12 ==
    /\ pc = "paso12"
    /\ \E exit \in ExitCodes :
         LET i == install_node_dependencies(files[CwdDir], exit) IN
         /\ trace' = trace \o <<Stage("npm")>> \o i.ev
         /\ pc' = IF i.raised THEN "error" ELSE "fin"
    /\ UNCHANGED <<typed, scratch, dirs, files, carpeta_clonacion, archivos,
                   dependencies, os_name, runs>>

Next ==
    \/ Paso1
    \/ Paso2
    \/ Paso3Enter
    \/ Paso3Body
    \/ Paso4
    \/ Paso5
    \/ Paso6
    \/ Paso7
    \/ Paso8Git
    \/ Paso8Node
    \/ Paso8Python
    \/ Paso8BNode
    \/ Paso8BPython
    \/ Paso9
    \/ Paso10
    \/ Paso11
    \/ Paso12

Spec == Init /\ [][Next]_vars

(***************************************************************************)
(* seleccionar_carpeta_clonacion on its own: one call, with the lines the  *)
(* user types drawn from Answers and UserPaths.                            *)
(***************************************************************************)
InitSelector == InitAt("selector", SUBSET CwdMarkers)

Seleccionar ==
    /\ pc = "selector"
    /\ \E answer \in Answers, path \in UserPaths :
         LET sel == seleccionar_carpeta_clonacion(CwdDir, answer, path, dirs) IN
         /\ typed' = IF \E i \in 1..Len(sel.ev) : sel.ev[i].v = "ruta"
                     THEN <<answer, path>> ELSE <<answer>>
         /\ carpeta_clonacion' = sel.ret
         /\ dirs' = sel.dirs
         /\ trace' = trace \o sel.ev
    /\ pc' = "selector_done"
    /\ UNCHANGED <<scratch, files, archivos, dependencies, os_name, runs>>

SpecSelector == InitSelector /\ [][Seleccionar]_vars

(***************************************************************************)
(* setup_python_virtualenv on its own: MaxRuns calls in succession in the  *)
(* same working directory.  An exception ends the succession.              *)
(***************************************************************************)
InitPreparer == InitAt("preparer", SUBSET CwdMarkers)

PrepararOtraVez ==
    /\ runs < MaxRuns
    /\ Preparar("preparer", "preparer")

SpecPreparer == InitPreparer /\ [][PrepararOtraVez]_vars

(***************************************************************************)
(* Reading the trace.                                                      *)
(***************************************************************************)
Idx == 1..Len(trace)
Terminal == pc \in {"fin", "error"}
Occurs(e) == \E i \in Idx : trace[i] = e
OccursAfter(i, e) == \E j \in Idx : j > i /\ trace[j] = e
\* where an event first occurs, 0 if it does not
At(e) == IF Occurs(e) THEN CHOOSE i \in Idx :
                               trace[i] = e /\ \A j \in 1..(i - 1) : trace[j] # e
         ELSE 0
IsRun(i, c) == trace[i].k = "run" /\ trace[i].v = c
IsStage(e) == e.k = "stage"
Stages == SelectSeq(trace, IsStage)

(***************************************************************************)
(* C1.  When git ls-remote exits non-zero the validator reports the URL    *)
(* as invalid and the run halts: no clone (shallow or real) is ever run    *)
(* and no later stage executes.                                            *)
(***************************************************************************)
C1_InvalidUrlHalts ==
    Occurs(Run("git ls-remote", "fail")) =>
        /\ pc = "fin"
        /\ Occurs(Out("URL no valido"))
        /\ Occurs(Out("Proceso terminado. Verifique el URL"))
        /\ \A i \in Idx : trace[i].k = "run" => trace[i].v = "git ls-remote"
        /\ Stages = <<Stage("verificar")>>
        /\ scratch = "none"

C1_Witness == pc = "fin" /\ Occurs(Run("git ls-remote", "fail"))

(***************************************************************************)
(* C2.  As claimed: any answer other than exactly the lowercase "s"        *)
(* returns the default directory, without reading a custom path and        *)
(* without creating a directory.                                           *)
(***************************************************************************)
C2_ExactLowercaseS ==
    (pc = "selector_done" /\ typed[1] # <<"s">>) =>
        /\ carpeta_clonacion = CwdDir
        /\ Len(typed) = 1
        /\ dirs = {CwdDir}

\* a line that is one "s" or "S" with nothing but blanks around it
IsYesLine(line) ==
    \E i \in 1..Len(line) :
        /\ line[i] \in {"s", "S"}
        /\ \A j \in 1..Len(line) : j # i => line[j] \in Whitespace

(***************************************************************************)
(* C2, amended.  Any answer that is not "s" once surrounding whitespace    *)
(* is stripped and case is folded returns the default directory, without   *)
(* reading a custom path and without creating a directory.                 *)
(***************************************************************************)
C2_NotYesKeepsDefault ==
    (pc = "selector_done" /\ ~IsYesLine(typed[1])) =>
        /\ carpeta_clonacion = CwdDir
        /\ Len(typed) = 1
        /\ ~Occurs(Read("ruta"))
        /\ dirs = {CwdDir}

C2_Witness ==
    /\ pc = "selector_done"
    /\ typed = << <<"y", "e", "s">> >>
    /\ carpeta_clonacion = CwdDir

(***************************************************************************)
(* C3.  Right after detection the dependency map is determined by which    *)
(* markers exist in the project root: Node.js iff package.json; Python ->  *)
(* requirements.txt whenever it exists, Python -> Pipfile iff Pipfile      *)
(* exists and requirements.txt does not; the venv key iff venv exists;     *)
(* no markers give the empty map and the no-dependencies message.          *)
(***************************************************************************)
C3_DetectionByMarkers ==
    pc = "paso8" =>
        LET present == files[carpeta_clonacion]
            keys == DOMAIN dependencies
        IN /\ keys \subseteq {"Node.js", "Python", "Python virtual environment"}
           /\ "Node.js" \in keys <=> "package.json" \in present
           /\ "Node.js" \in keys => dependencies["Node.js"] = "package.json"
           /\ "Python" \in keys <=>
                  ("requirements.txt" \in present \/ "Pipfile" \in present)
           /\ "requirements.txt" \in present =>
                  dependencies["Python"] = "requirements.txt"
           /\ ("Python" \in keys /\ dependencies["Python"] = "Pipfile") <=>
                  ("Pipfile" \in present /\ "requirements.txt" \notin present)
           /\ "Python virtual environment" \in keys <=> "venv" \in present
           /\ "Python virtual environment" \in keys =>
                  dependencies["Python virtual environment"] = "venv"
           /\ present \cap RepoMarkers = {} =>
                  /\ keys = {}
                  /\ trace[Len(trace)] = Out("No se detectaron dependencias")
           /\ present \cap RepoMarkers # {} =>
                  ~Occurs(Out("No se detectaron dependencias"))

C3_Witness ==
    /\ pc = "paso8"
    /\ {"requirements.txt", "Pipfile"} \subseteq files[carpeta_clonacion]
    /\ "package.json" \notin files[carpeta_clonacion]
    /\ dependencies["Python"] = "requirements.txt"

(***************************************************************************)
(* C4.  The probe's scratch directory exists only while the probe is       *)
(* inside its with-block: once the probe has returned or raised, it is     *)
(* gone.                                                                   *)
(***************************************************************************)
C4_ScratchRemoved ==
    /\ scratch = "live" => pc = "paso3_with"
    /\ (Occurs(Stage("obtener")) /\ pc # "paso3_with") => scratch = "removed"

C4_Witness ==
    /\ pc = "error"
    /\ Occurs(Raise("OSError"))
    /\ scratch = "removed"

(***************************************************************************)
(* C5.  In successive calls of setup_python_virtualenv the venv creation   *)
(* runs only when the venv directory is absent, so an existing venv is     *)
(* never recreated and at most one creation succeeds; every completed      *)
(* call prints the same activation command, fixed by the OS family.        *)
(***************************************************************************)
ActivationStrings == {"venv\\Scripts\\activate.bat", "source venv/bin/activate"}

C5_Idempotent ==
    /\ [][(\E i \in (Len(trace) + 1)..Len(trace') :
              trace'[i].k = "run" /\ trace'[i].v = "python -m venv venv")
          => "venv" \notin files[CwdDir]]_vars
    /\ [](LET created == {i \in Idx : trace[i] = Run("python -m venv venv", "ok")}
              printed == {i \in Idx : trace[i].k = "out"
                                      /\ trace[i].v \in ActivationStrings}
          IN /\ Cardinality(created) <= 1
             /\ Cardinality(printed) = runs
             /\ \A i \in printed :
                   trace[i].v = IF os_name = "nt"
                                THEN "venv\\Scripts\\activate.bat"
                                ELSE "source venv/bin/activate")

C5_Witness ==
    /\ runs = 2
    /\ Occurs(Run("python -m venv venv", "ok"))
    /\ Occurs(Out("El entorno virtual ya existe"))

(***************************************************************************)
(* C6.  As claimed: a failing install command of one ecosystem is still    *)
(* followed by the attempt for the other ecosystem: in Phase A, in Phase   *)
(* B, and from the targeted pip install to the targeted npm install.       *)
(***************************************************************************)
C6_FailureDoesNotBlockOther ==
    Terminal =>
        /\ \A i \in Idx :
             (IsRun(i, "npm install -g node") /\ trace[i].r = "fail") =>
                 trace[i + 1] = Out("Error: No se pudo instalar")
        /\ \A i \in Idx :
             (IsRun(i, "sh -c npm install") /\ trace[i].r = "fail"
              /\ "Python" \in DOMAIN dependencies) =>
                 \E j \in Idx : j > i /\ trace[j].k = "in"
                     /\ trace[j].v = "sh -c pip install -r requirements.txt"
        /\ \A i \in Idx :
             (IsRun(i, "venv/bin/pip install -r requirements.txt")
              /\ trace[i].r = "fail" /\ "package.json" \in files[CwdDir]) =>
                 \E j \in Idx : j > i /\ IsRun(j, "npm install")

(***************************************************************************)
(* C7.  As claimed: every command that installs a toolchain or project     *)
(* packages runs only after the user answered yes to a prompt offering     *)
(* that installation.                                                      *)
(***************************************************************************)
InstallCommands ==
    {"npm install -g node", "apt-get install python3",
     "python3 -m ensurepip --upgrade", "sh -c npm install",
     "sh -c pip install -r requirements.txt",
     "venv/bin/pip install -r requirements.txt", "npm install"}

\* the prompts that offer what a command installs
Offers(c) ==
    CASE c = "npm install -g node" -> {"Node.js y npm"}
      [] c = "apt-get install python3" -> {"Python"}
      [] c = "python3 -m ensurepip --upgrade" -> {"pip"}
      [] c \in {"sh -c npm install", "npm install"} -> {"sh -c npm install"}
      [] OTHER -> {"sh -c pip install -r requirements.txt"}

C7_InstallOnlyAfterYes ==
    \A i \in Idx :
        (trace[i].k = "run" /\ trace[i].v \in InstallCommands) =>
            \E j \in Idx : /\ j < i
                           /\ trace[j].k = "in"
                           /\ trace[j].v \in Offers(trace[i].v)
                           /\ trace[j].r = "s"

(***************************************************************************)
(* C8.  As claimed: after each failure of the pipeline the program prints  *)
(* a failure message before the run ends or the step is skipped.           *)
(***************************************************************************)
FailureMessages ==
    {"URL no valido", "Proceso terminado. Verifique el URL",
     "No se pudieron obtener los detalles",
     "Error: No tienes permisos", "Error: No se pudo crear la carpeta",
     "Error al seleccionar la carpeta", "Error al clonar el repositorio",
     "Error: No se pudo instalar"}

FailurePoints ==
    {"git ls-remote", "git clone --depth 1", "git clone",
     "npm install -g node", "apt-get install python3",
     "python3 -m ensurepip --upgrade", "python -m venv venv",
     "venv/bin/pip install -r requirements.txt", "npm install"}

C8_FailureIsReported ==
    Terminal =>
        \A i \in Idx :
            (trace[i].k = "run" /\ trace[i].v \in FailurePoints
             /\ trace[i].r = "fail") =>
                \E j \in Idx : /\ j > i
                               /\ trace[j].k = "out"
                               /\ trace[j].v \in FailureMessages

(***************************************************************************)
(* C9.  main is a forward-only sequence: stages are entered in the fixed   *)
(* order and never re-entered; the real clone runs only after the URL was  *)
(* validated, the probe returned a name and a non-empty inventory, the     *)
(* selector returned a path and the confirmation was read, in this order;  *)
(* detection and everything after it run only after the real clone         *)
(* succeeded; after any of the four aborts no later stage executes.        *)
(***************************************************************************)
StageOrder ==
    <<Stage("verificar"), Stage("obtener"), Stage("seleccionar"),
      Stage("clonar"), Stage("detectar"), Stage("instalar"), Stage("venv"),
      Stage("env"), Stage("pip"), Stage("npm")>>

AbortOf(e) ==
    CASE e = Run("git ls-remote", "fail") -> Stage("verificar")
      [] e = Run("git clone --depth 1", "fail") -> Stage("obtener")
      [] e = Out("No se pudieron obtener los detalles") -> Stage("obtener")
      [] e = Out("Error al seleccionar la carpeta") -> Stage("seleccionar")
      [] e = Run("git clone", "fail") -> Stage("clonar")
      [] OTHER -> Stage("")

C9_ForwardOnly ==
    /\ Len(Stages) <= Len(StageOrder)
    /\ Stages = SubSeq(StageOrder, 1, Len(Stages))
    /\ \A i \in Idx : IsRun(i, "git clone") =>
          /\ 0 < At(Run("git ls-remote", "ok"))
          /\ At(Run("git ls-remote", "ok")) < At(Run("git clone --depth 1", "ok"))
          /\ At(Run("git clone --depth 1", "ok")) < At(Out("Nombre del repositorio"))
          /\ At(Out("Nombre del repositorio")) < At(Out("El repositorio se clonara en"))
          /\ At(Out("El repositorio se clonara en")) < At(Read("continuar"))
          /\ At(Read("continuar")) < i
          /\ archivos # << >>
          /\ carpeta_clonacion # None /\ carpeta_clonacion # << >>
    /\ \A i \in Idx :
          (IsStage(trace[i])
           /\ trace[i].v \in {"detectar", "instalar", "venv", "env", "pip", "npm"})
          => (0 < At(Run("git clone", "ok")) /\ At(Run("git clone", "ok")) < i)
    /\ \A i \in Idx : AbortOf(trace[i]) # Stage("") =>
          /\ Terminal
          /\ Stages[Len(Stages)] = AbortOf(trace[i])

C9_Witness ==
    /\ pc = "fin"
    /\ Stages = StageOrder

(***************************************************************************)
(* C10.  A project-level install of Phase B that exits non-zero is taken   *)
(* as done: nothing is raised or reported, the loop goes on to the next    *)
(* detected ecosystem's prompt and the run goes on to the environment      *)
(* preparer.                                                               *)
(***************************************************************************)
C10_PhaseBIgnoresFailure ==
    \A i \in Idx :
        (trace[i].k = "run" /\ trace[i].r = "fail"
         /\ trace[i].v \in {"sh -c npm install",
                            "sh -c pip install -r requirements.txt"}) =>
            /\ trace[i + 1] = Out("se configuro correctamente")
            /\ (trace[i].v = "sh -c npm install"
                /\ "Python" \in DOMAIN dependencies
                /\ pc # "paso8_b_python") =>
                   \E j \in Idx : j > i /\ trace[j].k = "in"
                       /\ trace[j].v = "sh -c pip install -r requirements.txt"
            /\ pc \notin {"paso8_b_python", "paso9"} =>
                   OccursAfter(i, Stage("venv"))

C10_Witness ==
    /\ Occurs(Run("sh -c npm install", "fail"))
    /\ Occurs(Run("sh -c pip install -r requirements.txt", "fail"))
    /\ Occurs(Stage("venv"))
====
